---- MODULE Spec2Model ----
(***************************************************************************)
(* Calendar merger (src/index.js): fetch the configured iCalendar sources, *)
(* expand recurring events over a one-year window, adjust start/end, build *)
(* one calendar and upload it.                                             *)
(*                                                                         *)
(* Time is an integer number of hours since an epoch.  A JavaScript Date   *)
(* is the record [t, tz]: t is the absolute instant, tz the `tz` property  *)
(* node-ical attaches to a parsed DTSTART/DTEND that carried a TZID        *)
(* (NoTz when the property is absent).  Zones have fixed offsets.          *)
(***************************************************************************)
EXTENDS Integers, Sequences, FiniteSets, TLC

VARIABLES
    now,          \* the wall clock read by moment() at lines 91-92
    pc,           \* position of the main async IIFE
    fetchState,   \* per source: position of its fetchCalendar call
    fetchCalls,   \* per source: number of axios.get calls issued
    arrival,      \* source indexes in the order their fetchCalendar settled
    parsed,       \* per source: result of nodeIcal.async.parseICS
    cal,          \* the ical-generator calendar under construction
    events,       \* calendarEventsArray.map(Object.values).flat()
    pos,          \* index of the next element of `events` for forEach
    window,       \* [start, end] computed at lines 91-96
    merged,       \* value of mergedCalendar (cal.toString())
    putCalls,     \* PutObjectCommands sent through s3Client.send
    errorLog,     \* number of console.error calls
    uploadLog     \* number of "File uploaded successfully" logs

vars == <<now, pc, fetchState, fetchCalls, arrival, parsed, cal, events,
          pos, window, merged, putCalls, errorLog, uploadLog>>

----------------------------------------------------------------------------
(* Configuration, lines 32-37 *)

calendarName == "JohnDoe is EXTRAORDINARILY BUSY"
calendarTimezone == "Europe/Madrid"
NumSources == 2
calendarInputUrls == 1..NumSources

(* Bounds of the model *)
HoursPerDay == 24
YearDays == 3          \* length of "1 year" in days, scaled down
MaxEvents == 2         \* components served by all sources together

NoTz == "none"
NoRule == ""                       \* event.rrule absent
BadRule == "FREQ=FORTNIGHTLY"      \* a rule text RRule.parseString rejects
DailyRule == "FREQ=DAILY"
DailyTwiceRule == "FREQ=DAILY;COUNT=2"
NoCal == [name |-> "", timezone |-> NoTz, events |-> <<>>]
NoWindow == [start |-> 0, end |-> 0]

Offset(zone) ==
    CASE zone = "Europe/Madrid" -> 1
      [] zone = "America/New_York" -> -5
      [] OTHER -> 0

Date(t, tz) == [t |-> t, tz |-> tz]

----------------------------------------------------------------------------
(* moment / moment-timezone as used by the program *)

\* moment.tz(date, timezone) with a Date argument: the same instant, tagged
\* with the zone for display.
MomentTz(date, timezone) == [instant |-> date.t, zone |-> timezone]

\* moment#toDate(): the instant as a plain Date; the zone tag is dropped.
ToDate(m) == Date(m.instant, NoTz)

\* startOf("day") / endOf("day") of a zone-tagged moment
StartOfDay(m) ==
    LET local == m.instant + Offset(m.zone)
    IN  [m EXCEPT !.instant = (local - (local % HoursPerDay)) - Offset(m.zone)]

EndOfDay(m) ==
    [m EXCEPT !.instant = StartOfDay(m).instant + HoursPerDay - 1]

AddYear(m) == [m EXCEPT !.instant = m.instant + YearDays * HoursPerDay]

\* variant of adjustDate that reads the Date's UTC date/time as a date/time
\* of `timezone`
adjustDate_reinterpret(date, timezone) == Date(date.t - Offset(timezone), NoTz)

\* lines 46-48
adjustDate(date, timezone) == ToDate(MomentTz(date, timezone))

----------------------------------------------------------------------------
(* rrule: parsed options are [step, count]: one instant every `step` hours *)
(* from dtstart, `count` instants in all (0: unbounded).                   *)

\* RRule.parseString, line 54
ParseString(text) ==
    CASE text = DailyRule -> [step |-> HoursPerDay, count |-> 0]
      [] text = DailyTwiceRule -> [step |-> HoursPerDay, count |-> 2]

\* RRule.parseString at line 54 throws on a rule text it cannot parse
RuleThrows(event) == event.rrule \notin {NoRule, DailyRule, DailyTwiceRule}

RECURSIVE RuleInstants(_, _, _, _)
RuleInstants(rule, dtstart, n, before) ==
    LET d == dtstart + n * rule.step
    IN  IF d > before \/ (rule.count > 0 /\ n >= rule.count)
        THEN <<>>
        ELSE <<d>> \o RuleInstants(rule, dtstart, n + 1, before)

SelectSeqAfter(s, after, before) ==
    SelectSeq(s, LAMBDA d : after < d /\ d < before)

\* rule.between(after, before): inc defaults to false, both ends excluded
Between(rule, dtstart, after, before) ==
    SelectSeqAfter(RuleInstants(rule, dtstart, 0, before), after, before)

\* line 60
Duration(event) == event.end.t - event.start.t

\* variant of Occurrence that leaves the template's end in place
Occurrence_templateEnd(event, date) ==
    [event EXCEPT !.start = Date(date, NoTz)]

\* lines 62-69
Occurrence(event, date) ==
    [event EXCEPT !.start = Date(date, NoTz),
                  !.end = Date(date + Duration(event), NoTz)]

\* variant of expandRecurringEvent that clips non-recurring events to the
\* window as well
expandRecurringEvent_windowed(event, start, end) ==
    IF event.rrule = NoRule
    THEN IF start < event.start.t /\ event.start.t < end THEN <<event>> ELSE <<>>
    ELSE LET dates == Between(ParseString(event.rrule), event.start.t,
                              start, end)
         IN  [i \in 1..Len(dates) |-> Occurrence(event, dates[i])]

\* lines 51-70 (the parse failure of line 54 is RuleThrows)
expandRecurringEvent(event, start, end) ==
    IF event.rrule = NoRule
    THEN <<event>>
    ELSE LET dates == Between(ParseString(event.rrule), event.start.t,
                              start, end)
         IN  [i \in 1..Len(dates) |-> Occurrence(event, dates[i])]

----------------------------------------------------------------------------
(* mergeCalendars, lines 81-127 *)

\* lines 91-96
ComputeWindow(t) ==
    [start |-> StartOfDay(MomentTz(Date(t, NoTz), calendarTimezone)).instant,
     end   |-> EndOfDay(AddYear(MomentTz(Date(t, NoTz), calendarTimezone))).instant]

ZoneOr(tz) == IF tz = NoTz THEN calendarTimezone ELSE tz

\* lines 106-121: the event handed to cal.createEvent
CreatedEvent(event, expandedEvent) ==
    [start   |-> adjustDate(expandedEvent.start, ZoneOr(event.start.tz)),
     end     |-> adjustDate(expandedEvent.end, ZoneOr(event.end.tz)),
     summary |-> expandedEvent.summary]

\* lines 103-123: everything one forEach callback adds to the calendar
EventsFor(event, w) ==
    IF event.type # "VEVENT"
    THEN <<>>
    ELSE LET expandedEvents == expandRecurringEvent(event, w.start, w.end)
         IN  [i \in 1..Len(expandedEvents) |->
                 CreatedEvent(event, expandedEvents[i])]

\* line 88
NewCalendar == [name |-> calendarName, timezone |-> NoTz, events |-> <<>>]

\* settled states of a fetchCalendar promise that are rejections
Rejected == {"fetchError", "parseError"}

\* variant of PromiseAllState with Promise.allSettled semantics
PromiseAllState_settled(fs) ==
    IF \A i \in calendarInputUrls : fs[i] \in Rejected \cup {"ok"}
    THEN "fulfilled"
    ELSE "pending"

\* variant of PromiseAllState that fulfils with the first fulfilled promise
PromiseAllState_any(fs) ==
    IF \E i \in calendarInputUrls : fs[i] = "ok" THEN "fulfilled"
    ELSE IF \A i \in calendarInputUrls : fs[i] \in Rejected THEN "rejected"
    ELSE "pending"

\* Promise.all over the fetchCalendar promises, lines 83-85
PromiseAllState(fs) ==
    IF \E i \in calendarInputUrls : fs[i] \in Rejected THEN "rejected"
    ELSE IF \A i \in calendarInputUrls : fs[i] = "ok" THEN "fulfilled"
    ELSE "pending"

\* variant of PromiseAllValues that yields the results in settlement order
PromiseAllValues_arrival(results, order) ==
    [k \in 1..Len(order) |-> results[order[k]]]

\* the array Promise.all resolves to: one entry per input, in input order
PromiseAllValues(results, order) == [i \in calendarInputUrls |-> results[i]]

RECURSIVE Flat(_, _)
\* lines 99-101: .map(Object.values).flat()
Flat(arr, i) ==
    IF i > Len(arr) THEN <<>> ELSE arr[i] \o Flat(arr, i + 1)

----------------------------------------------------------------------------
(* Inputs *)

RawEvents(starts, durations, rules, startZones, endZones, summaries) ==
    {[type |-> "VEVENT", start |-> Date(s, a), end |-> Date(s + d, b),
      rrule |-> r, summary |-> m] :
        s \in starts, d \in durations, r \in rules,
        a \in startZones, b \in endZones, m \in summaries}

\* a non-event component of the parsed mapping
TimezoneComponent ==
    [type |-> "VTIMEZONE", start |-> Date(0, NoTz), end |-> Date(0, NoTz),
     rrule |-> NoRule, summary |-> ""]

ParsedSoFar == Len(Flat(parsed, 1))

\* the component sequences a source can still deliver: all sources together
\* deliver at most MaxEvents components
Calendars(U) == UNION {[1..n -> U] : n \in 0..(MaxEvents - ParsedSoFar)}

Init ==
    /\ now = 0
    /\ pc = "start"
    /\ fetchState = [i \in calendarInputUrls |-> "idle"]
    /\ fetchCalls = [i \in calendarInputUrls |-> 0]
    /\ arrival = <<>>
    /\ parsed = [i \in calendarInputUrls |-> <<>>]
    /\ cal = NoCal
    /\ events = <<>>
    /\ pos = 1
    /\ window = NoWindow
    /\ merged = NoCal
    /\ putCalls = <<>>
    /\ errorLog = 0
    /\ uploadLog = 0

----------------------------------------------------------------------------
(* Actions *)

\* lines 141-144 and 83-85: the IIFE calls mergeCalendars, which starts one
\* fetchCalendar per URL (each runs up to its await of axios.get) and awaits
\* Promise.all
CallMerge ==
    /\ pc = "start"
    /\ pc' = "awaitAll"
    /\ fetchState' = [i \in calendarInputUrls |-> "requesting"]
    /\ fetchCalls' = [i \in calendarInputUrls |-> fetchCalls[i] + 1]
    /\ UNCHANGED <<now, arrival, parsed, cal, events, pos, window, merged,
                   putCalls, errorLog, uploadLog>>

\* line 41 resolves; line 42 starts parsing
HttpRespond(i) ==
    /\ fetchState[i] = "requesting"
    /\ fetchState' = [fetchState EXCEPT ![i] = "parsing"]
    /\ UNCHANGED <<now, pc, fetchCalls, arrival, parsed, cal, events, pos,
                   window, merged, putCalls, errorLog, uploadLog>>

\* line 41 rejects (HTTP error)
HttpFail(i) ==
    /\ fetchState[i] = "requesting"
    /\ fetchState' = [fetchState EXCEPT ![i] = "fetchError"]
    /\ arrival' = Append(arrival, i)
    /\ UNCHANGED <<now, pc, fetchCalls, parsed, cal, events, pos, window,
                   merged, putCalls, errorLog, uploadLog>>

\* line 42 resolves with the parsed components
ParseOk(i, components) ==
    /\ fetchState[i] = "parsing"
    /\ fetchState' = [fetchState EXCEPT ![i] = "ok"]
    /\ parsed' = [parsed EXCEPT ![i] = components]
    /\ arrival' = Append(arrival, i)
    /\ UNCHANGED <<now, pc, fetchCalls, cal, events, pos, window, merged,
                   putCalls, errorLog, uploadLog>>

\* line 42 rejects (malformed ICS text)
ParseFail(i) ==
    /\ fetchState[i] = "parsing"
    /\ fetchState' = [fetchState EXCEPT ![i] = "parseError"]
    /\ arrival' = Append(arrival, i)
    /\ UNCHANGED <<now, pc, fetchCalls, parsed, cal, events, pos, window,
                   merged, putCalls, errorLog, uploadLog>>

\* lines 83-101: Promise.all fulfilled; calendar created, window computed
\* from the clock, the components flattened
Join(t) ==
    /\ pc = "awaitAll"
    /\ PromiseAllState(fetchState) = "fulfilled"
    /\ pc' = "merge"
    /\ cal' = NewCalendar
    /\ now' = t
    /\ window' = ComputeWindow(t)
    /\ events' = Flat(PromiseAllValues(parsed, arrival), 1)
    /\ pos' = 1
    /\ UNCHANGED <<fetchState, fetchCalls, arrival, parsed, merged, putCalls,
                   errorLog, uploadLog>>

\* lines 83-85 reject: mergeCalendars rejects, the IIFE's await throws
JoinReject ==
    /\ pc = "awaitAll"
    /\ PromiseAllState(fetchState) = "rejected"
    /\ pc' = "catch"
    /\ UNCHANGED <<now, fetchState, fetchCalls, arrival, parsed, cal, events,
                   pos, window, merged, putCalls, errorLog, uploadLog>>

\* lines 102-124: one forEach callback
ProcessEvent ==
    /\ pc = "merge"
    /\ pos <= Len(events)
    /\ LET event == events[pos]
       IN  IF event.type = "VEVENT" /\ RuleThrows(event)
           THEN /\ pc' = "catch"
                /\ UNCHANGED <<cal, pos>>
           ELSE /\ cal' = [cal EXCEPT !.events = @ \o EventsFor(event, window)]
                /\ pos' = pos + 1
                /\ pc' = pc
    /\ UNCHANGED <<now, fetchState, fetchCalls, arrival, parsed, events,
                   window, merged, putCalls, errorLog, uploadLog>>

\* lines 126 and 144-159: mergeCalendars returns cal.toString(); the IIFE
\* builds the PutObjectCommand and sends it
Upload ==
    /\ pc = "merge"
    /\ pos > Len(events)
    /\ merged' = cal
    /\ putCalls' = Append(putCalls, [Body |-> cal, ACL |-> "public-read",
                                     ContentType |-> "text/calendar"])
    /\ pc' = "uploading"
    /\ UNCHANGED <<now, fetchState, fetchCalls, arrival, parsed, cal, events,
                   pos, window, errorLog, uploadLog>>

\* lines 159-161
PutOk ==
    /\ pc = "uploading"
    /\ uploadLog' = uploadLog + 1
    /\ pc' = "done"
    /\ UNCHANGED <<now, fetchState, fetchCalls, arrival, parsed, cal, events,
                   pos, window, merged, putCalls, errorLog>>

\* line 159 rejects
PutFail ==
    /\ pc = "uploading"
    /\ pc' = "catch"
    /\ UNCHANGED <<now, fetchState, fetchCalls, arrival, parsed, cal, events,
                   pos, window, merged, putCalls, errorLog, uploadLog>>

\* variant of Catch that runs the merge again after the first failure
Catch_retry ==
    /\ pc = "catch"
    /\ errorLog' = errorLog + 1
    /\ pc' = IF errorLog = 0 THEN "start" ELSE "failed"
    /\ UNCHANGED <<now, fetchState, fetchCalls, arrival, parsed, cal, events,
                   pos, window, merged, putCalls, uploadLog>>

\* lines 162-164
Catch ==
    /\ pc = "catch"
    /\ errorLog' = errorLog + 1
    /\ pc' = "failed"
    /\ UNCHANGED <<now, fetchState, fetchCalls, arrival, parsed, cal, events,
                   pos, window, merged, putCalls, uploadLog>>

\* one run of the program over components drawn from U and clock readings
\* drawn from nows
NextOver(U, nows) ==
    \/ CallMerge
    \/ \E i \in calendarInputUrls : HttpRespond(i)
    \/ \E i \in calendarInputUrls : HttpFail(i)
    \/ \E i \in calendarInputUrls : \E c \in Calendars(U) : ParseOk(i, c)
    \/ \E i \in calendarInputUrls : ParseFail(i)
    \/ \E t \in nows : Join(t)
    \/ JoinReject
    \/ ProcessEvent
    \/ Upload
    \/ PutOk
    \/ PutFail
    \/ Catch

----------------------------------------------------------------------------
(* Specifications: the same program over different families of inputs *)

\* events at every position relative to the window, every kind of rule
WindowEvents ==
    RawEvents({-1, 22, 30, 130}, {2}, {NoRule, BadRule, DailyRule, DailyTwiceRule},
              {NoTz}, {NoTz}, {"e"})
        \cup {TimezoneComponent}

Next == NextOver(WindowEvents, {30, 47})

Spec == Init /\ [][Next]_vars

\* events of every duration sign and every combination of start/end zone
ZoneEvents ==
    RawEvents({30}, {-1, 0, 2}, {NoRule, DailyRule},
              {NoTz, "America/New_York"}, {NoTz, "America/New_York"}, {"e"})
        \cup RawEvents({30}, {2}, {BadRule}, {NoTz}, {NoTz}, {"e"})

NextZone == NextOver(ZoneEvents, {30})

SpecZone == Init /\ [][NextZone]_vars

----------------------------------------------------------------------------
(* Properties *)

\* a forEach callback has just completed on events[pos]
Processed == pc = "merge" /\ pos <= Len(events) /\ pos' = pos + 1

\* the events that callback added to the calendar
Added == SubSeq(cal'.events, Len(cal.events) + 1, Len(cal'.events))

Kept == SubSeq(cal'.events, 1, Len(cal.events)) = cal.events

NonRecurring(event) == event.type = "VEVENT" /\ event.rrule = NoRule
Recurring(event) == event.type = "VEVENT" /\ event.rrule # NoRule

Before(event, w) == event.start.t < w.start /\ event.end.t < w.start
After(event, w) == event.start.t > w.end
Overlapping(event, w) == event.start.t < w.start /\ event.end.t > w.start
Inside(event, w) == event.start.t >= w.start /\ event.end.t <= w.end

\* C1: a VEVENT without a recurrence rule expands to exactly one occurrence
\* with the event's own start and end, and the merge adds exactly one event
\* for it, wherever the event lies relative to the window.
C1_NonRecurringOnce ==
    [][(Processed /\ NonRecurring(events[pos])) =>
          LET event == events[pos]
              occs == expandRecurringEvent(event, window.start, window.end)
          IN  /\ Len(occs) = 1
              /\ occs[1].start = event.start /\ occs[1].end = event.end
              /\ Kept
              /\ Len(Added) = 1
              /\ Added[1].start.t = event.start.t
              /\ Added[1].end.t = event.end.t]_vars

\* both a non-recurring event entirely before the window and one entirely
\* after it have been emitted
C1_Witness ==
    /\ pc = "merge" /\ pos = 3
    /\ NonRecurring(events[1]) /\ Before(events[1], window)
    /\ NonRecurring(events[2]) /\ After(events[2], window)
    /\ Len(cal.events) = 2

\* the start instants the rule generates from the event's original start,
\* up to `last`
Generated(event, last) ==
    LET s == RuleInstants(ParseString(event.rrule), event.start.t, 0, last)
    IN  {s[i] : i \in 1..Len(s)}

\* C2: a recurring event contributes as many occurrences as its rule has
\* start instants in [window.start, window.end): an instant equal to
\* window.start counts, one equal to window.end does not, none is no error.
C2_HalfOpenCount ==
    [][(Processed /\ Recurring(events[pos])) =>
          Len(Added) = Cardinality({d \in Generated(events[pos], window.end) :
                                       window.start <= d /\ d < window.end})]_vars

\* C3: every emitted event lasts exactly as long as its raw event.
C3_DurationKept ==
    [][Processed =>
          \A i \in 1..Len(Added) :
              Added[i].end.t - Added[i].start.t
                  = events[pos].end.t - events[pos].start.t]_vars

\* a recurring event whose start and end carry different zones has been
\* expanded into several occurrences
C3_Witness ==
    /\ pc = "merge" /\ pos = 2
    /\ Recurring(events[1])
    /\ events[1].start.tz # NoTz /\ events[1].end.tz = NoTz
    /\ Len(cal.events) >= 2

\* C4 as stated: every emitted event ends after it starts.
C4_EndAfterStart ==
    \A i \in 1..Len(cal.events) : cal.events[i].end.t > cal.events[i].start.t

\* C4 amended: an emitted event whose raw event ends after it starts ends
\* after it starts; a raw event whose end equals its start is emitted with
\* end = start.
C4_EndAfterStartAsRaw ==
    [][Processed =>
          \A i \in 1..Len(Added) :
              /\ (events[pos].end.t > events[pos].start.t)
                     => (Added[i].end.t > Added[i].start.t)
              /\ (events[pos].end.t = events[pos].start.t)
                     => (Added[i].end.t = Added[i].start.t)]_vars

\* raw events of zero duration and of positive duration, with different
\* zones on start and end, have both been emitted
C4_Witness ==
    /\ pc = "merge" /\ pos = 3
    /\ Recurring(events[1])
    /\ events[1].end.t = events[1].start.t
    /\ events[1].start.tz # events[1].end.tz
    /\ events[2].end.t > events[2].start.t
    /\ events[2].start.tz # events[2].end.tz
    /\ Len(cal.events) >= 3
    /\ cal.events[1].end.t = cal.events[1].start.t

RECURSIVE ConcatEventsFor(_, _, _)
\* the occurrences of components[j..], in order
ConcatEventsFor(components, j, w) ==
    IF j > Len(components) THEN <<>>
    ELSE EventsFor(components[j], w) \o ConcatEventsFor(components, j + 1, w)

SourceOccurrences(i) == ConcatEventsFor(parsed[i], 1, window)

RECURSIVE InSourceOrder(_)
InSourceOrder(i) ==
    IF i > NumSources THEN <<>>
    ELSE SourceOccurrences(i) \o InSourceOrder(i + 1)

RECURSIVE SumOfCounts(_)
SumOfCounts(i) ==
    IF i > NumSources THEN 0
    ELSE Len(SourceOccurrences(i)) + SumOfCounts(i + 1)

\* C5: the merged calendar is the concatenation of the sources' occurrence
\* sequences in configured source order, whatever order the fetches settled
\* in; nothing is sorted, deduplicated or dropped.
C5_SourceOrder ==
    pc \in {"uploading", "done"} =>
        /\ merged.events = InSourceOrder(1)
        /\ Len(merged.events) = SumOfCounts(1)
        /\ putCalls[1].Body.events = InSourceOrder(1)

\* the second source settled first; the output keeps source order, is not
\* sorted by start and holds two equal events
C5_Witness ==
    /\ pc = "uploading"
    /\ arrival = <<2, 1>>
    /\ Len(parsed[1]) = 1 /\ Len(parsed[2]) = 1
    /\ Recurring(parsed[1][1]) /\ NonRecurring(parsed[2][1])
    /\ Len(merged.events) >= 3
    /\ \E a, b \in 1..Len(merged.events) :
           a < b /\ merged.events[a].start.t > merged.events[b].start.t
    /\ \E a, b \in 1..Len(merged.events) :
           a # b /\ merged.events[a] = merged.events[b]

\* RRule.parseString threw in a forEach callback
RuleFailed ==
    /\ pc \in {"catch", "failed"}
    /\ pos <= Len(events)
    /\ events[pos].type = "VEVENT"
    /\ RuleThrows(events[pos])

\* C6: when a fetch fails, an ICS text fails to parse or a rule text fails
\* to parse, no PutObjectCommand is ever sent.
C6_NoPublishOnFailure ==
    ((\E i \in calendarInputUrls : fetchState[i] \in Rejected) \/ RuleFailed)
        => putCalls = <<>>

\* a rule failed to parse after part of the calendar had been built; the
\* run ended without a put
C6_Witness ==
    /\ pc = "failed"
    /\ RuleFailed
    /\ Len(cal.events) > 0
    /\ putCalls = <<>>

\* C7: every fetch is started before any is awaited; no event is processed
\* until every fetch and parse has succeeded; when one fails no event of
\* any source is expanded or added.
C7_AllOrNothing ==
    /\ pc # "start" =>
           \A i \in calendarInputUrls :
               fetchCalls[i] = 1 /\ fetchState[i] # "idle"
    /\ (pc = "merge" \/ pos > 1 \/ events # <<>> \/ cal # NoCal) =>
           \A i \in calendarInputUrls : fetchState[i] = "ok"
    /\ (\E i \in calendarInputUrls : fetchState[i] \in Rejected) =>
           cal = NoCal /\ events = <<>> /\ pos = 1

\* one source delivered events, the other failed to parse, and the run
\* ended with nothing merged
C7_Witness ==
    /\ pc = "failed"
    /\ fetchState[1] = "ok" /\ Len(parsed[1]) > 0
    /\ fetchState[2] = "parseError"
    /\ arrival = <<1, 2>>
    /\ cal = NoCal

\* the zone in which a Date's naive date/time fields are read
LocalZone == "UTC"

\* the instant whose date/time in `zone` is the naive date/time of `date`
Reinterpreted(date, zone) == (date.t + Offset(LocalZone)) - Offset(zone)

\* C8: the emitted start is the occurrence's naive start reinterpreted in the
\* raw event's start zone, else in the target timezone; the emitted end
\* likewise from the end zone; neither zone influences the other field.
C8_ReinterpretedPerField ==
    [][(Processed /\ events[pos].type = "VEVENT") =>
          LET event == events[pos]
              occs == expandRecurringEvent(event, window.start, window.end)
          IN  /\ Len(Added) = Len(occs)
              /\ \A i \in 1..Len(Added) :
                     /\ Added[i].start.t
                            = Reinterpreted(occs[i].start, ZoneOr(event.start.tz))
                     /\ Added[i].end.t
                            = Reinterpreted(occs[i].end, ZoneOr(event.end.tz))]_vars

\* C9: the merged calendar of a successful run carries the configured name
\* and the configured target timezone.
C9_NameAndTimezone ==
    pc \in {"uploading", "done"} =>
        /\ merged.name = calendarName
        /\ merged.timezone = calendarTimezone

Failed == pc \in {"catch", "failed"}

\* C10: each URL is fetched at most once, at most one put is sent and only
\* with the calendar mergeCalendars returned; a failure is logged once and
\* no fetch or put follows it.
C10_NoRetry ==
    /\ [](/\ \A i \in calendarInputUrls : fetchCalls[i] <= 1
          /\ Len(putCalls) <= 1
          /\ putCalls # <<>> =>
                 /\ pos > Len(events)
                 /\ \A i \in calendarInputUrls : fetchState[i] = "ok"
                 /\ merged = cal
                 /\ putCalls[1].Body = merged
          /\ errorLog <= 1
          /\ pc = "failed" => errorLog = 1
          /\ errorLog = 1 => pc = "failed")
    /\ [][Failed => /\ Failed'
                    /\ fetchCalls' = fetchCalls
                    /\ putCalls' = putCalls]_vars

\* the sink rejected the only put; the error was logged and the run ended
C10_Witness ==
    /\ pc = "failed"
    /\ Len(putCalls) = 1
    /\ errorLog = 1
    /\ \A i \in calendarInputUrls : fetchCalls[i] = 1

====
